---- MODULE Spec2Model ----
(***************************************************************************)
(* contextify: the library's save_project_structure_and_files              *)
(* (src/src/lib.rs).  Strings are sequences of one-character strings, so   *)
(* that prefix, suffix, substring, split and glob matching are computed    *)
(* character by character as the Rust code computes them.                  *)
(***************************************************************************)
EXTENDS Integers, Sequences, FiniteSets, TLC

(***************************************************************************)
(* Bounds of the model.                                                    *)
(***************************************************************************)
\* longest root list passed as paths_to_process when the roots are varied
MaxRoots == 2
\* longest blacklist / whitelist when the pattern lists are varied
MaxPatterns == 2
\* the longest pattern file, in characters
MaxFileLen == 4

(***************************************************************************)
(* String helpers (std::str methods used by lib.rs).                       *)
(***************************************************************************)
\* str::starts_with
StartsWith(s, p) ==
    /\ Len(p) <= Len(s)
    /\ SubSeq(s, 1, Len(p)) = p

\* str::ends_with
EndsWith(s, p) ==
    /\ Len(p) <= Len(s)
    /\ SubSeq(s, Len(s) - Len(p) + 1, Len(s)) = p

\* str::contains(&str)
Contains(s, sub) ==
    \E i \in 1..(Len(s) - Len(sub) + 1) : SubSeq(s, i, i + Len(sub) - 1) = sub

\* str::contains(char)
ContainsChar(s, c) == \E i \in 1..Len(s) : s[i] = c

\* str::replace(char, &str) with a one-character replacement
Replace(s, from, to) == [i \in 1..Len(s) |-> IF s[i] = from THEN to ELSE s[i]]

\* str::trim_end_matches(char): every trailing occurrence is removed
RECURSIVE TrimEndMatches(_, _)
TrimEndMatches(s, c) ==
    IF Len(s) > 0 /\ s[Len(s)] = c
    THEN TrimEndMatches(SubSeq(s, 1, Len(s) - 1), c)
    ELSE s

\* str::split(char).collect(): the segments between the separators,
\* empty segments included
RECURSIVE SplitFrom(_, _, _, _)
SplitFrom(s, sep, i, cur) ==
    IF i > Len(s) THEN <<cur>>
    ELSE IF s[i] = sep THEN <<cur>> \o SplitFrom(s, sep, i + 1, <<>>)
    ELSE SplitFrom(s, sep, i + 1, Append(cur, s[i]))

Split(s, sep) == SplitFrom(s, sep, 1, <<>>)

\* slice::contains
SeqContains(seq, x) == \E i \in 1..Len(seq) : seq[i] = x

\* slice::join for a slice of strings
RECURSIVE Join(_, _)
Join(strs, sep) ==
    IF Len(strs) = 0 THEN <<>>
    ELSE IF Len(strs) = 1 THEN strs[1]
    ELSE strs[1] \o sep \o Join(Tail(strs), sep)

\* The character U+0060 (grave accent), which a TLA+ string cannot hold
Backtick == "U+0060"

\* The characters of the model in ascending code-point order: String's Ord
\* compares byte-wise, which for these characters is code-point order.
CodePointOrder ==
    <<"\n", " ", "!", "\"", "#", "(", ")", "*", ",", "-", ".", "/",
      "0", "1", "2", "3", "4", "5", "6", "7", "8", "9", ":", ";", "?",
      "A", "C", "F", "H", "P", "S", "T", "[", "\\", "]", "_", Backtick,
      "a", "b", "c", "d", "e", "f", "g", "h", "i", "j", "k", "l", "m",
      "n", "o", "p", "q", "r", "s", "t", "u", "v", "w", "x", "y", "z",
      "{", "}">>

CodePoint(c) == CHOOSE i \in 1..Len(CodePointOrder) : CodePointOrder[i] = c

\* String::cmp(a, b) = Less
RECURSIVE StrLess(_, _)
StrLess(a, b) ==
    IF Len(b) = 0 THEN FALSE
    ELSE IF Len(a) = 0 THEN TRUE
    ELSE IF a[1] = b[1] THEN StrLess(Tail(a), Tail(b))
    ELSE CodePoint(a[1]) < CodePoint(b[1])

(***************************************************************************)
(* glob::Pattern, as lib.rs uses it: Pattern::new(p).map(|p| p.matches(s)) *)
(* .unwrap_or(false), with the default MatchOptions (case sensitive, a     *)
(* wildcard may match '/', a leading dot needs no literal).                *)
(***************************************************************************)
\* std::path::is_separator on the platform modelled (Unix)
IsSeparator(c) == c = "/"

\* parse_char_specifiers: a-b is a range, anything else a single character
RECURSIVE ParseCharSpecifiers(_, _)
ParseCharSpecifiers(s, i) ==
    IF i > Len(s) THEN <<>>
    ELSE IF i + 2 <= Len(s) /\ s[i + 1] = "-"
         THEN <<[kind |-> "CharRange", lo |-> s[i], hi |-> s[i + 2]]>>
              \o ParseCharSpecifiers(s, i + 3)
         ELSE <<[kind |-> "SingleChar", lo |-> s[i], hi |-> s[i]]>>
              \o ParseCharSpecifiers(s, i + 1)

\* in_char_specifiers, case sensitive
InCharSpecifiers(cs, c) ==
    \E k \in 1..Len(cs) :
        IF cs[k].kind = "SingleChar" THEN c = cs[k].lo
        ELSE CodePoint(cs[k].lo) <= CodePoint(c) /\ CodePoint(c) <= CodePoint(cs[k].hi)

\* first index m >= from with chars[m] = "]", or 0
PositionOfBracket(chars, from) ==
    IF \E m \in from..Len(chars) : chars[m] = "]"
    THEN CHOOSE m \in from..Len(chars) :
            /\ chars[m] = "]"
            /\ \A n \in from..(m - 1) : chars[n] # "]"
    ELSE 0

\* end of the run of '*' that starts at i (first index after the run)
RECURSIVE StarRunEnd(_, _)
StarRunEnd(chars, i) ==
    IF i <= Len(chars) /\ chars[i] = "*" THEN StarRunEnd(chars, i + 1) ELSE i

PatternError == [ok |-> FALSE, tokens |-> <<>>]

\* Pattern::new: the token list, or an error
RECURSIVE PatternParse(_, _, _)
PatternParse(chars, i, tokens) ==
    IF i > Len(chars) THEN [ok |-> TRUE, tokens |-> tokens]
    ELSE IF chars[i] = "?"
    THEN PatternParse(chars, i + 1, Append(tokens, [kind |-> "AnyChar"]))
    ELSE IF chars[i] = "*"
    THEN LET e == StarRunEnd(chars, i)
             count == e - i
         IN  IF count > 2 THEN PatternError
             ELSE IF count = 2
             THEN IF i = 1 \/ IsSeparator(chars[i - 1])
                  THEN IF e <= Len(chars) /\ ~IsSeparator(chars[e])
                       THEN PatternError
                       ELSE LET next == IF e <= Len(chars) THEN e + 1 ELSE e
                                collapse ==
                                    /\ Len(tokens) > 1
                                    /\ tokens[Len(tokens)].kind = "AnyRecursiveSequence"
                            IN  PatternParse(chars, next,
                                    IF collapse THEN tokens
                                    ELSE Append(tokens, [kind |-> "AnyRecursiveSequence"]))
                  ELSE PatternError
             ELSE PatternParse(chars, e, Append(tokens, [kind |-> "AnySequence"]))
    ELSE IF chars[i] = "["
    THEN IF i + 3 <= Len(chars) /\ chars[i + 1] = "!"
         THEN LET m == PositionOfBracket(chars, i + 3)
              IN  IF m = 0 THEN PatternError
                  ELSE PatternParse(chars, m + 1,
                         Append(tokens, [kind |-> "AnyExcept",
                            cs |-> ParseCharSpecifiers(SubSeq(chars, i + 2, m - 1), 1)]))
         ELSE IF i + 2 <= Len(chars) /\ chars[i + 1] # "!"
         THEN LET m == PositionOfBracket(chars, i + 2)
              IN  IF m = 0 THEN PatternError
                  ELSE PatternParse(chars, m + 1,
                         Append(tokens, [kind |-> "AnyWithin",
                            cs |-> ParseCharSpecifiers(SubSeq(chars, i + 1, m - 1), 1)]))
         ELSE PatternError
    ELSE PatternParse(chars, i + 1, Append(tokens, [kind |-> "Char", c |-> chars[i]]))

PatternNew(pattern) == PatternParse(pattern, 1, <<>>)

\* one non-wildcard token against one character
TokenMatchesChar(tok, c) ==
    IF tok.kind = "AnyChar" THEN TRUE
    ELSE IF tok.kind = "AnyWithin" THEN InCharSpecifiers(tok.cs, c)
    ELSE IF tok.kind = "AnyExcept" THEN ~InCharSpecifiers(tok.cs, c)
    ELSE tok.c = c

\* Pattern::matches_from: "Match", "SubPatternDoesntMatch" or
\* "EntirePatternDoesntMatch"; i is the next token, j the next character.
\* SequenceScan is the while loop of a wildcard token: when the characters
\* run out the for loop goes on with the tokens that are left.
RECURSIVE MatchesFrom(_, _, _, _, _), SequenceScan(_, _, _, _, _)
MatchesFrom(tokens, i, file, j, follows_separator) ==
    IF i > Len(tokens)
    THEN IF j > Len(file) THEN "Match" ELSE "SubPatternDoesntMatch"
    ELSE IF tokens[i].kind \in {"AnySequence", "AnyRecursiveSequence"}
    THEN LET empty == MatchesFrom(tokens, i + 1, file, j, follows_separator)
         IN  IF empty # "SubPatternDoesntMatch" THEN empty
             ELSE SequenceScan(tokens, i, file, j, follows_separator)
    ELSE IF j > Len(file) THEN "EntirePatternDoesntMatch"
    ELSE IF ~TokenMatchesChar(tokens[i], file[j]) THEN "SubPatternDoesntMatch"
    ELSE MatchesFrom(tokens, i + 1, file, j + 1, IsSeparator(file[j]))

SequenceScan(tokens, i, file, j, follows_separator) ==
    IF j > Len(file)
    THEN MatchesFrom(tokens, i + 1, file, j, follows_separator)
    ELSE LET sep == IsSeparator(file[j])
         IN  IF tokens[i].kind = "AnyRecursiveSequence" /\ ~sep
             THEN SequenceScan(tokens, i, file, j + 1, sep)
             ELSE LET m == MatchesFrom(tokens, i + 1, file, j + 1, sep)
                  IN  IF m # "SubPatternDoesntMatch" THEN m
                      ELSE SequenceScan(tokens, i, file, j + 1, sep)

\* glob::Pattern::new(pattern).map(|p| p.matches(path_str)).unwrap_or(false)
GlobMatches(pattern, path_str) ==
    LET p == PatternNew(pattern)
    IN  /\ p.ok
        /\ MatchesFrom(p.tokens, 1, path_str, 1, TRUE) = "Match"

(***************************************************************************)
(* The environment: the current directory and a file system.  A path is    *)
(* its sequence of components (std::path::Component::Normal), a PathBuf    *)
(* passed by the caller is [absolute, comps].                              *)
(***************************************************************************)
\* std::env::current_dir(): /w
Cwd == << <<"w">> >>

\* The regular files: absolute path and text.  /w/d holds a file whose
\* one-component name is s\c.rs beside the directory s that holds c.rs;
\* /w/u holds an empty file, a file that is not text and a directory that
\* cannot be listed; /w/[ is a directory whose name is no glob pattern; /v
\* lies outside the working directory.
FileSystem ==
    { [path |-> << <<"w">>, <<"a",".","r","s">> >>,
       content |-> <<"a","b","c","d","e">>],
      [path |-> << <<"w">>, <<"d">>, <<"o","u","t",".","t","x","t">> >>,
       content |-> <<"o","l","d">>],
      [path |-> << <<"w">>, <<"d">>, <<"s">>, <<"c",".","r","s">> >>,
       content |-> <<"x","y","z">>],
      [path |-> << <<"w">>, <<"d">>, <<"s","\\","c",".","r","s">> >>,
       content |-> <<"k","\n">>],
      [path |-> << <<"w">>, <<"o","l","d","_","p","r","o","j","e","c","t","s">>,
                   <<"x",".","r","s">> >>,
       content |-> <<"q">>],
      [path |-> << <<"w">>, <<"u">>, <<"o","k",".","r","s">> >>,
       content |-> <<"o","k">>],
      [path |-> << <<"w">>, <<"u">>, <<"e",".","m","d">> >>,
       content |-> <<>>],
      [path |-> << <<"w">>, <<"u">>, <<"b","i","n",".","r","s">> >>,
       content |-> <<>>],
      [path |-> << <<"w">>, <<"u">>, <<"p">>, <<"z",".","r","s">> >>,
       content |-> <<"z">>],
      [path |-> << <<"w">>, <<"[">>, <<"y",".","r","s">> >>,
       content |-> <<"y">>],
      [path |-> << <<"v">>, <<"o",".","m","d">> >>,
       content |-> <<"v">>] }

\* /w/u/bin.rs holds bytes that are not UTF-8: fs::read_to_string fails on it
UndecodableFiles == { << <<"w">>, <<"u">>, <<"b","i","n",".","r","s">> >> }

\* /w/u/p cannot be listed: read_dir fails on it
UnreadableDirs == { << <<"w">>, <<"u">>, <<"p">> >> }

\* Path::is_file
IsFile(p) == \E f \in FileSystem : f.path = p

\* Path::is_dir: a directory is a proper prefix of a file's path
IsDir(p) ==
    \E f \in FileSystem :
        /\ Len(p) < Len(f.path)
        /\ SubSeq(f.path, 1, Len(p)) = p

\* the entries of directory p
Children(p) ==
    { SubSeq(f.path, 1, Len(p) + 1) :
        f \in { g \in FileSystem : Len(p) < Len(g.path) /\ SubSeq(g.path, 1, Len(p)) = p } }

\* the text of io::Error's Display for bytes that are not UTF-8
InvalidUtf8 ==
    <<"s","t","r","e","a","m"," ","d","i","d"," ","n","o","t"," ",
      "c","o","n","t","a","i","n"," ","v","a","l","i","d"," ","U","T","F","-","8">>

\* fs::read_to_string of a regular file of the file system: Ok(content) or
\* Err(e)
ReadToString(p) ==
    IF p \in UndecodableFiles
    THEN [ok |-> FALSE, content |-> <<>>, error |-> InvalidUtf8]
    ELSE [ok |-> TRUE, content |-> (CHOOSE f \in FileSystem : f.path = p).content,
          error |-> <<>>]

\* the orders in which a directory's entries can be handed out
EntryOrders(S) ==
    { f \in [1..Cardinality(S) -> S] : \A i, j \in 1..Cardinality(S) : f[i] = f[j] => i = j }

\* WalkDir::new(p).into_iter(), the entries that pass the filter of
\* lib.rs:149-157 (not the output file, a regular file): depth first, each
\* directory's entries in an order the platform chooses.  A directory that
\* cannot be listed yields an Err, which filter_map(|e| e.ok()) drops
\* (lib.rs:148), and the walk goes on.  The set of sequences the walk can
\* yield.
RECURSIVE WalkDir(_, _), WalkEntries(_, _)
WalkDir(p, out) ==
    IF IsFile(p)
    THEN IF out.is_some /\ out.path = [absolute |-> TRUE, comps |-> p]
         THEN { <<>> }
         ELSE { <<p>> }
    ELSE IF p \in UnreadableDirs
    THEN { <<>> }
    ELSE UNION { WalkEntries(order, out) : order \in EntryOrders(Children(p)) }

WalkEntries(order, out) ==
    IF Len(order) = 0 THEN { <<>> }
    ELSE { first \o rest : first \in WalkDir(order[1], out),
                           rest \in WalkEntries(Tail(order), out) }

\* the directories at or below p whose listing fails during the walk of p:
\* the Err items of WalkDir::new(p).into_iter()
WalkErrors(p) ==
    { q \in UnreadableDirs : Len(p) <= Len(q) /\ SubSeq(q, 1, Len(p)) = p }

\* base_path.is_absolute() ? base_path : cwd.join(base_path)   (lib.rs:135-139)
AbsoluteBasePath(base_path) ==
    IF base_path.absolute THEN base_path.comps ELSE Cwd \o base_path.comps

\* Path::to_string_lossy of a path given by its components
ToStringLossy(absolute, comps) ==
    (IF absolute THEN <<"/">> ELSE <<>>) \o Join(comps, <<"/">>)

\* path.strip_prefix(&cwd).unwrap_or(path).to_string_lossy().replace('\\', "/")
\* (lib.rs:142-143, 160-161)
PathStr(p) ==
    LET display ==
            IF Len(Cwd) <= Len(p) /\ SubSeq(p, 1, Len(Cwd)) = Cwd
            THEN ToStringLossy(FALSE, SubSeq(p, Len(Cwd) + 1, Len(p)))
            ELSE ToStringLossy(TRUE, p)
    IN  Replace(display, "\\", "/")

\* the record pushed to all_files for a file   (lib.rs:144, 162)
FileRecord(p) == [path |-> p, path_str |-> PathStr(p)]

(***************************************************************************)
(* Selection: the filter loop of lib.rs:172-261.                           *)
(***************************************************************************)
\* DirMatch without path_parts.contains: a simple name matches only at the
\* front of the path
DirMatch_FrontOnly(pattern, path_str) ==
    IF EndsWith(pattern, <<"/">>)
    THEN LET clean_pattern == TrimEndMatches(pattern, "/")
         IN  \/ StartsWith(path_str, clean_pattern \o <<"/">>)
             \/ path_str = clean_pattern
    ELSE IF ~ContainsChar(pattern, "*") /\ ~ContainsChar(pattern, ".")
    THEN \/ StartsWith(path_str, pattern \o <<"/">>)
         \/ path_str = pattern
    ELSE FALSE

\* dir_match   (lib.rs:184-197)
DirMatch(pattern, path_str) ==
    IF EndsWith(pattern, <<"/">>)
    THEN LET clean_pattern == TrimEndMatches(pattern, "/")
         IN  \/ StartsWith(path_str, clean_pattern \o <<"/">>)
             \/ path_str = clean_pattern
    ELSE IF ~ContainsChar(pattern, "*") /\ ~ContainsChar(pattern, ".")
    THEN \/ SeqContains(Split(path_str, "/"), pattern)
         \/ StartsWith(path_str, pattern \o <<"/">>)
         \/ path_str = pattern
    ELSE FALSE

\* wild_subdir_match (lib.rs:206-212) and in_subdir (lib.rs:243-249)
WildSubdirMatch(pattern, path_str) ==
    IF StartsWith(pattern, <<"*">>)
    THEN GlobMatches(<<"*", "*", "/">> \o pattern, path_str)
    ELSE FALSE

\* the closure of blacklist_patterns.iter().any   (lib.rs:175-224)
BlacklistPatternMatches(pattern, path_str) ==
    \/ GlobMatches(pattern, path_str)
    \/ DirMatch(pattern, path_str)
    \/ WildSubdirMatch(pattern, path_str)

\* Blacklisted with the glob match alone: dir_match and wild_subdir_match
\* left out of the result
Blacklisted_GlobOnly(path_str, patterns) ==
    IF Len(patterns) # 0
    THEN \E i \in 1..Len(patterns) : GlobMatches(patterns[i], path_str)
    ELSE FALSE

\* blacklisted   (lib.rs:174-227)
Blacklisted(path_str, patterns) ==
    IF Len(patterns) # 0
    THEN \E i \in 1..Len(patterns) : BlacklistPatternMatches(patterns[i], path_str)
    ELSE FALSE

\* WhitelistPatternMatches for files at the root alone
WhitelistPatternMatches_RootOnly(pattern, path_str) ==
    /\ ~ContainsChar(path_str, "/")
    /\ GlobMatches(pattern, path_str)

\* the closure of whitelist_patterns.iter().any   (lib.rs:237-252)
WhitelistPatternMatches(pattern, path_str) ==
    \/ GlobMatches(pattern, path_str)
    \/ WildSubdirMatch(pattern, path_str)

\* ShouldInclude with all() in place of any()
ShouldInclude_AllMustMatch(path_str, patterns) ==
    IF Len(patterns) # 0
    THEN \A i \in 1..Len(patterns) : WhitelistPatternMatches(patterns[i], path_str)
    ELSE TRUE

\* should_include   (lib.rs:235-256)
ShouldInclude(path_str, patterns) ==
    IF Len(patterns) # 0
    THEN \E i \in 1..Len(patterns) : WhitelistPatternMatches(patterns[i], path_str)
    ELSE TRUE

\* the loop over all_files: a blacklisted file is skipped (continue), a
\* file that should be included is pushed   (lib.rs:172-261)
FilterLoop(files, blacklist, whitelist) ==
    SelectSeq(files, LAMBDA rec :
        /\ ~Blacklisted(rec.path_str, blacklist)
        /\ ShouldInclude(rec.path_str, whitelist))

(***************************************************************************)
(* Reading, sorting and assembling: lib.rs:263-321.                        *)
(***************************************************************************)
\* the literal of the final safety check   (lib.rs:265, 284)
OldProjectsDir == <<"o","l","d","_","p","r","o","j","e","c","t","s","/">>

\* the prefix of format!("Error reading file: {}", e)   (lib.rs:292)
ErrorReadingFile ==
    <<"E","r","r","o","r"," ","r","e","a","d","i","n","g"," ","f","i","l","e",":"," ">>

\* ContentOf with nothing in place of the content of a file that cannot be
\* read
ContentOf_EmptyOnError(path) ==
    LET read == ReadToString(path)
    IN  IF read.ok THEN read.content ELSE <<>>

\* match fs::read_to_string(&path) { Ok(content) => content,
\*     Err(e) => format!("Error reading file: {}", e) }   (lib.rs:290-293)
ContentOf(path) ==
    LET read == ReadToString(path)
    IN  IF read.ok THEN read.content ELSE ErrorReadingFile \o read.error

\* ReadLoop without the skip of old_projects/
ReadLoop_ReadsAll(files) ==
    [i \in 1..Len(files) |->
        [path_str |-> files[i].path_str, content |-> ContentOf(files[i].path)]]

\* the loop over filtered_files: a path that contains "old_projects/" is
\* skipped, every other file is read   (lib.rs:281-296)
ReadLoop(files) ==
    LET kept == SelectSeq(files, LAMBDA rec : ~Contains(rec.path_str, OldProjectsDir))
    IN  [i \in 1..Len(kept) |->
            [path_str |-> kept[i].path_str, content |-> ContentOf(kept[i].path)]]

\* Vec::sort_by(|(a, _), (b, _)| a.cmp(b)): a stable sort, an element goes
\* in front of the first element that is greater than it   (lib.rs:299)
RECURSIVE InsertByPath(_, _)
InsertByPath(sorted, x) ==
    IF Len(sorted) = 0 THEN <<x>>
    ELSE IF StrLess(x.path_str, sorted[1].path_str) THEN <<x>> \o sorted
    ELSE <<sorted[1]>> \o InsertByPath(Tail(sorted), x)

RECURSIVE SortFrom(_, _, _)
SortFrom(seq, i, sorted) ==
    IF i > Len(seq) THEN sorted
    ELSE SortFrom(seq, i + 1, InsertByPath(sorted, seq[i]))

\* SortByPath with the sort left out
SortByPath_Unsorted(seq) == seq

SortByPath(seq) == SortFrom(seq, 1, <<>>)

\* content.lines().count(): a final line needs no line terminator, an empty
\* string has no line   (lib.rs:310)
LinesCount(content) ==
    Cardinality({ i \in 1..Len(content) : content[i] = "\n" })
    + (IF Len(content) > 0 /\ content[Len(content)] # "\n" THEN 1 ELSE 0)

\* content.chars().count()   (lib.rs:311)
CharsCount(content) == Len(content)

\* the statistics accumulated over the results   (lib.rs:306-313)
RECURSIVE AccumulateStats(_, _, _)
AccumulateStats(res, i, st) ==
    IF i > Len(res) THEN st
    ELSE AccumulateStats(res, i + 1,
            [st EXCEPT !.line_count = @ + LinesCount(res[i].content),
                       !.char_count = @ + CharsCount(res[i].content),
                       !.estimated_tokens = @ + (CharsCount(res[i].content) \div 4)])

\* project_structure   (lib.rs:302-304)
ProjectStructure(res) == [i \in 1..Len(res) |-> res[i].path_str]

\* format!("{}:\n```\n{}\n```\n", path, content)   (lib.rs:307)
FormatBlock(path, content) ==
    path \o <<":", "\n", Backtick, Backtick, Backtick, "\n">>
         \o content \o <<"\n", Backtick, Backtick, Backtick, "\n">>

\* the four writes to the writer   (lib.rs:316-319)
Render(art) ==
    <<"P","r","o","j","e","c","t"," ","S","t","r","u","c","t","u","r","e",":">> \o <<"\n">>
    \o Join(art.structure, <<"\n">>) \o <<"\n">>
    \o <<"\n","F","i","l","e"," ","C","o","n","t","e","n","t","s",":">> \o <<"\n">>
    \o Join([i \in 1..Len(art.blocks) |->
                FormatBlock(art.blocks[i].path_str, art.blocks[i].content)], <<"\n">>)

\* what the writer holds after the first k of the four writes
Written(art, k) ==
    LET writes ==
            << <<"P","r","o","j","e","c","t"," ","S","t","r","u","c","t","u","r","e",":">>
                    \o <<"\n">>,
               Join(art.structure, <<"\n">>) \o <<"\n">>,
               <<"\n","F","i","l","e"," ","C","o","n","t","e","n","t","s",":">> \o <<"\n">>,
               Join([i \in 1..Len(art.blocks) |->
                        FormatBlock(art.blocks[i].path_str, art.blocks[i].content)],
                    <<"\n">>) >>
    IN  Join(SubSeq(writes, 1, k), <<>>)

(***************************************************************************)
(* The hardcoded output of handle_blacklist_only_test, lib.rs:325-375: the *)
(* literal it writes, as the listing and the blocks it consists of         *)
(* (Render of them is the literal, character for character).               *)
(***************************************************************************)
BlacklistOnlyTestName ==
    <<"b","l","a","c","k","l","i","s","t","_","o","n","l","y","_","t","e","s","t">>

HandlerBlocks ==
    << [path_str |-> <<"f","i","l","e","1",".","r","s">>,
        content |-> <<"f","n"," ","m","a","i","n","(",")"," ","{","\n"," "," "," "," ","p","r","i","n","t","l","n","!","(","\"","H","e","l","l","o",","," ","w","o","r","l","d","!","\"",")",";","\n","}">>],
       [path_str |-> <<"f","i","l","e","2",".","m","d">>,
        content |-> <<"#"," ","T","i","t","l","e","\n","\n","T","h","i","s"," ","i","s"," ","a"," ","m","a","r","k","d","o","w","n"," ","f","i","l","e",".">>],
       [path_str |-> <<"f","i","l","e","3",".","t","x","t">>,
        content |-> <<"P","l","a","i","n"," ","t","e","x","t"," ","f","i","l","e",".">>],
       [path_str |-> <<"s","u","b","d","i","r","/","s","u","b","f","i","l","e","1",".","r","s">>,
        content |-> <<"s","t","r","u","c","t"," ","T","e","s","t"," ","{","\n"," "," "," "," ","f","i","e","l","d",":"," ","i","3","2","\n","}">>],
       [path_str |-> <<"s","u","b","d","i","r","/","s","u","b","f","i","l","e","2",".","t","x","t">>,
        content |-> <<"A","n","o","t","h","e","r"," ","t","e","x","t"," ","f","i","l","e",".">>] >>

HandlerArtifact ==
    [structure |-> ProjectStructure(HandlerBlocks), blocks |-> HandlerBlocks]

\* the ProcessingStats the handler returns   (lib.rs:369-374)
HandlerStats ==
    [file_count |-> 5, line_count |-> 20, char_count |-> 200, estimated_tokens |-> 50]

(***************************************************************************)
(* The inputs a run is given.                                              *)
(***************************************************************************)
RelativePath(comps) == [absolute |-> FALSE, comps |-> comps]
AbsolutePath(comps) == [absolute |-> TRUE, comps |-> comps]

\* the artifact of an earlier run, /w/d/out.txt
OutputFile == AbsolutePath(<< <<"w">>, <<"d">>, <<"o","u","t",".","t","x","t">> >>)

None == [is_some |-> FALSE, path |-> RelativePath(<<>>)]
Some(p) == [is_some |-> TRUE, path |-> p]

\* a.rs, d, d/out.txt, old_projects, /w/d/s, and blacklist_only_test, which
\* names nothing in the file system
RootUniverse ==
    { RelativePath(<< <<"a",".","r","s">> >>),
      RelativePath(<< <<"d">> >>),
      RelativePath(<< <<"d">>, <<"o","u","t",".","t","x","t">> >>),
      RelativePath(<< <<"o","l","d","_","p","r","o","j","e","c","t","s">> >>),
      AbsolutePath(<< <<"w">>, <<"d">>, <<"s">> >>),
      RelativePath(<< BlacklistOnlyTestName >>) }

\* *.txt (a glob), old_projects/ (a directory anchor), s (a bare segment)
\* and [ (no glob pattern)
BlacklistUniverse ==
    { <<"*", ".", "t", "x", "t">>,
      OldProjectsDir,
      <<"s">>,
      <<"[">> }

\* *.rs, *c.rs, d/* and [ (no glob pattern)
WhitelistUniverse ==
    { <<"*", ".", "r", "s">>,
      <<"*", "c", ".", "r", "s">>,
      <<"d", "/", "*">>,
      <<"[">> }

\* the root list of the runs that vary the pattern lists
SelectionRoots ==
    << RelativePath(<< <<"a",".","r","s">> >>),
       RelativePath(<< <<"d">> >>),
       RelativePath(<< <<"o","l","d","_","p","r","o","j","e","c","t","s">> >>) >>

\* u, [ and /v: the roots of the runs that meet a file that cannot be read,
\* a directory that cannot be listed, a name that is no glob pattern and a
\* directory outside the working directory
ErrorRoots ==
    { RelativePath(<< <<"u">> >>),
      RelativePath(<< <<"[">> >>),
      AbsolutePath(<< <<"v">> >>) }

\* [ : Pattern::new fails on it
InvalidUniverse == { <<"[">> }

SeqsUpTo(S, n) == UNION { [1..k -> S] : k \in 0..n }

(***************************************************************************)
(* The state of one call of save_project_structure_and_files.              *)
(***************************************************************************)
VARIABLES
    paths_to_process,        \* the roots, in the order given
    blacklist_patterns,
    whitelist_patterns,
    output_file_to_exclude,  \* None or Some(path)
    pc,                      \* the place the call has reached
    next_root,               \* index of the root the walk loop is at
    all_files,               \* Vec<(PathBuf, String)>
    filtered_files,
    results,                 \* Vec<(String, String)>: path_str, content
    artifact,                \* the listing and the blocks handed to the writer
    stats,                   \* ProcessingStats
    writer,                  \* the characters written to the writer
    result,                  \* what the call returns: "Ok" (with stats) or "Err"
    walk_errors,             \* the Err items the walk has dropped so far
    overrides,               \* main.rs: the override globs installed in the builder
    entries,                 \* main.rs: Vec<DirEntry>, the files the walker yielded
    slots,                   \* main.rs: the (path, content) of each finished read
    completion,              \* main.rs: the indices of the reads as they finished
    file,                    \* the pattern file a loader is given
    loaded                   \* what the loader returns

vars == <<paths_to_process, blacklist_patterns, whitelist_patterns,
          output_file_to_exclude, pc, next_root, all_files, filtered_files,
          results, artifact, stats, writer, result, walk_errors,
          overrides, entries, slots, completion, file, loaded>>

\* the state of the binary's pipeline and of the loaders, which a call of
\* the library function leaves alone
main_vars == <<overrides, entries, slots, completion>>
load_vars == <<file, loaded>>

inputs == <<paths_to_process, blacklist_patterns, whitelist_patterns,
            output_file_to_exclude>>

\* no pattern file, nothing loaded: the loaders are not part of the call
NoFile == [kind |-> "none", content |-> <<>>]
NotLoaded == [returned |-> FALSE, by |-> "none", ok |-> FALSE, patterns |-> <<>>]

EmptyStats == [file_count |-> 0, line_count |-> 0, char_count |-> 0, estimated_tokens |-> 0]
EmptyArtifact == [structure |-> <<>>, blocks |-> <<>>]

\* the locals as declared   (lib.rs:121-132, 170)
InitLocals ==
    /\ pc = "start"
    /\ next_root = 1
    /\ all_files = <<>>
    /\ filtered_files = <<>>
    /\ results = <<>>
    /\ artifact = EmptyArtifact
    /\ stats = EmptyStats
    /\ writer = <<>>
    /\ result = "none"
    /\ walk_errors = 0
    /\ overrides = <<>>
    /\ entries = <<>>
    /\ slots = <<>>
    /\ completion = <<>>
    /\ file = NoFile
    /\ loaded = NotLoaded

\* no call of save_project_structure_and_files is under way
NoCall ==
    /\ paths_to_process = <<>>
    /\ blacklist_patterns = <<>>
    /\ whitelist_patterns = <<>>
    /\ output_file_to_exclude = None
    /\ next_root = 1
    /\ all_files = <<>>
    /\ filtered_files = <<>>
    /\ results = <<>>
    /\ artifact = EmptyArtifact
    /\ stats = EmptyStats
    /\ writer = <<>>
    /\ result = "none"
    /\ walk_errors = 0
    /\ overrides = <<>>
    /\ entries = <<>>
    /\ slots = <<>>
    /\ completion = <<>>

call_vars == <<paths_to_process, blacklist_patterns, whitelist_patterns,
               output_file_to_exclude, next_root, all_files, filtered_files,
               results, artifact, stats, writer, result, walk_errors, main_vars>>

\* runs that vary the roots and the output file, with no pattern
InitRoots ==
    /\ paths_to_process \in SeqsUpTo(RootUniverse, MaxRoots)
    /\ blacklist_patterns = <<>>
    /\ whitelist_patterns = <<>>
    /\ output_file_to_exclude \in { None, Some(OutputFile) }
    /\ InitLocals

\* runs that vary the pattern lists, over one root list
InitPatterns ==
    /\ paths_to_process = SelectionRoots
    /\ blacklist_patterns \in SeqsUpTo(BlacklistUniverse, MaxPatterns)
    /\ whitelist_patterns \in SeqsUpTo(WhitelistUniverse, MaxPatterns)
    /\ output_file_to_exclude = Some(OutputFile)
    /\ InitLocals

\* runs over the roots that hold the error cases, with patterns that are
\* no glob patterns
InitErrors ==
    /\ paths_to_process \in SeqsUpTo(ErrorRoots, MaxRoots)
    /\ blacklist_patterns \in SeqsUpTo(InvalidUniverse, MaxPatterns)
    /\ whitelist_patterns \in SeqsUpTo(InvalidUniverse, MaxPatterns)
    /\ output_file_to_exclude = None
    /\ InitLocals

Init == InitRoots \/ InitPatterns \/ InitErrors

(***************************************************************************)
(* The steps of the call.                                                  *)
(***************************************************************************)
\* the test of lib.rs:79-84, 107: one root, whose text contains
\* "blacklist_only_test".  The branches of lib.rs:109-117 lie inside that
\* test and are never taken.
IsBlacklistOnlyTest(paths) ==
    /\ Len(paths) = 1
    /\ Contains(ToStringLossy(paths[1].absolute, paths[1].comps), BlacklistOnlyTestName)

\* lib.rs:107-108, 325-375: the hardcoded artifact and statistics
HandleBlacklistOnlyTest ==
    /\ pc = "start"
    /\ IsBlacklistOnlyTest(paths_to_process)
    /\ \/ /\ artifact' = HandlerArtifact
          /\ writer' = Render(HandlerArtifact)
          /\ stats' = HandlerStats
          /\ result' = "Ok"
       \/ \* write!(writer, "{}", content)? fails   (lib.rs:368)
          /\ result' = "Err"
          /\ UNCHANGED <<artifact, writer, stats>>
    /\ pc' = "done"
    /\ UNCHANGED <<inputs, next_root, all_files, filtered_files, results,
                   walk_errors, main_vars, load_vars>>

\* lib.rs:121-134: no handler applies, the walk begins
StartWalk ==
    /\ pc = "start"
    /\ ~IsBlacklistOnlyTest(paths_to_process)
    /\ pc' = "walk"
    /\ UNCHANGED <<inputs, next_root, all_files, filtered_files, results,
                   artifact, stats, writer, result, walk_errors, main_vars, load_vars>>

\* lib.rs:141-144: a root that is a file is pushed as it is
WalkFileRoot ==
    /\ pc = "walk"
    /\ next_root <= Len(paths_to_process)
    /\ LET absolute_base_path == AbsoluteBasePath(paths_to_process[next_root])
       IN  /\ IsFile(absolute_base_path)
           /\ all_files' = Append(all_files, FileRecord(absolute_base_path))
    /\ next_root' = next_root + 1
    /\ UNCHANGED <<inputs, pc, filtered_files, results, artifact, stats, writer,
                   result, walk_errors, main_vars, load_vars>>

\* lib.rs:145-163: a root that is a directory is walked
WalkDirRoot ==
    /\ pc = "walk"
    /\ next_root <= Len(paths_to_process)
    /\ LET absolute_base_path == AbsoluteBasePath(paths_to_process[next_root])
       IN  /\ ~IsFile(absolute_base_path)
           /\ IsDir(absolute_base_path)
           /\ \E walked \in WalkDir(absolute_base_path, output_file_to_exclude) :
                all_files' = all_files \o [i \in 1..Len(walked) |-> FileRecord(walked[i])]
           /\ walk_errors' = walk_errors + Cardinality(WalkErrors(absolute_base_path))
    /\ next_root' = next_root + 1
    /\ UNCHANGED <<inputs, pc, filtered_files, results, artifact, stats, writer,
                   result, main_vars, load_vars>>

\* lib.rs:164-166: neither a file nor a directory, skipped with a warning
SkipRoot ==
    /\ pc = "walk"
    /\ next_root <= Len(paths_to_process)
    /\ LET absolute_base_path == AbsoluteBasePath(paths_to_process[next_root])
       IN  /\ ~IsFile(absolute_base_path)
           /\ ~IsDir(absolute_base_path)
    /\ next_root' = next_root + 1
    /\ UNCHANGED <<inputs, pc, all_files, filtered_files, results, artifact, stats, writer,
                   result, walk_errors, main_vars, load_vars>>

\* lib.rs:169-261: the filter loop
FilterFiles ==
    /\ pc = "walk"
    /\ next_root > Len(paths_to_process)
    /\ filtered_files' = FilterLoop(all_files, blacklist_patterns, whitelist_patterns)
    /\ pc' = "process"
    /\ UNCHANGED <<inputs, next_root, all_files, results, artifact, stats, writer,
                   result, walk_errors, main_vars, load_vars>>

\* lib.rs:278-296: file_count is set, then the files are read
ProcessFiles ==
    /\ pc = "process"
    /\ stats' = [stats EXCEPT !.file_count = Len(filtered_files)]
    /\ results' = ReadLoop(filtered_files)
    /\ pc' = "sort"
    /\ UNCHANGED <<inputs, next_root, all_files, filtered_files, artifact, writer,
                   result, walk_errors, main_vars, load_vars>>

\* lib.rs:298-299
SortResults ==
    /\ pc = "sort"
    /\ results' = SortByPath(results)
    /\ pc' = "prepare"
    /\ UNCHANGED <<inputs, next_root, all_files, filtered_files, artifact, stats, writer,
                   result, walk_errors, main_vars, load_vars>>

\* lib.rs:301-313: the listing, the blocks and the statistics
PrepareOutput ==
    /\ pc = "prepare"
    /\ artifact' = [structure |-> ProjectStructure(results), blocks |-> results]
    /\ stats' = AccumulateStats(results, 1, stats)
    /\ pc' = "write"
    /\ UNCHANGED <<inputs, next_root, all_files, filtered_files, results, writer,
                   result, walk_errors, main_vars, load_vars>>

\* lib.rs:315-321: the writes, and Ok(stats)
WriteOutput ==
    /\ pc = "write"
    /\ writer' = Render(artifact)
    /\ result' = "Ok"
    /\ pc' = "done"
    /\ UNCHANGED <<inputs, next_root, all_files, filtered_files, results, artifact, stats,
                   walk_errors, main_vars, load_vars>>

\* lib.rs:316-319: one of the four writes fails and `?` returns the error;
\* the writes before it have been made
WriteFails ==
    /\ pc = "write"
    /\ \E k \in 0..3 : writer' = Written(artifact, k)
    /\ result' = "Err"
    /\ pc' = "done"
    /\ UNCHANGED <<inputs, next_root, all_files, filtered_files, results, artifact, stats,
                   walk_errors, main_vars, load_vars>>

Next ==
    \/ HandleBlacklistOnlyTest
    \/ StartWalk
    \/ WalkFileRoot
    \/ WalkDirRoot
    \/ SkipRoot
    \/ FilterFiles
    \/ ProcessFiles
    \/ SortResults
    \/ PrepareOutput
    \/ WriteOutput
    \/ WriteFails

Spec == Init /\ [][Next]_vars

(***************************************************************************)
(* The pattern-file loaders: read_list_file and read_gitignore_file of     *)
(* lib.rs:25-65 and of main.rs:298-338.                                    *)
(***************************************************************************)
\* char::is_whitespace, for the characters of the model
WhiteSpace == {" ", "\n", "\r", "\t"}

RECURSIVE TrimStart(_)
TrimStart(str) ==
    IF Len(str) > 0 /\ str[1] \in WhiteSpace THEN TrimStart(Tail(str)) ELSE str

RECURSIVE TrimEnd(_)
TrimEnd(str) ==
    IF Len(str) > 0 /\ str[Len(str)] \in WhiteSpace
    THEN TrimEnd(SubSeq(str, 1, Len(str) - 1))
    ELSE str

\* str::trim
Trim(str) == TrimEnd(TrimStart(str))

\* str::lines: the pieces end at each "\n"; the "\n" and a "\r" before it
\* are taken off; what follows the last "\n" is a line if it is not empty
RECURSIVE LinesFrom(_, _, _)
LinesFrom(str, i, cur) ==
    IF i > Len(str) THEN (IF Len(cur) = 0 THEN <<>> ELSE <<cur>>)
    ELSE IF str[i] = "\n"
    THEN LET line == IF Len(cur) > 0 /\ cur[Len(cur)] = "\r"
                     THEN SubSeq(cur, 1, Len(cur) - 1)
                     ELSE cur
         IN  <<line>> \o LinesFrom(str, i + 1, <<>>)
    ELSE LinesFrom(str, i + 1, Append(cur, str[i]))

Lines(str) == LinesFrom(str, 1, <<>>)

\* [i |-> Trim(lines[i])]
TrimAll(lines) == [i \in 1..Len(lines) |-> Trim(lines[i])]

\* PatternLines with the test for '#' left out
PatternLines_KeepComments(content) ==
    TrimAll(SelectSeq(Lines(content), LAMBDA line : Len(Trim(line)) # 0))

\* the Ok arm of the library's loaders: lines(), the filter (not empty and
\* not starting with '#', after trim) and the map to trim   (lib.rs:27-34,
\* and the same at lib.rs:48-55)
PatternLines(content) ==
    TrimAll(SelectSeq(Lines(content), LAMBDA line :
        LET trimmed == Trim(line)
        IN  Len(trimmed) # 0 /\ ~StartsWith(trimmed, <<"#">>)))

\* the Ok arm of the binary's read_list_file: lines(), the filter (not
\* empty after trim) and the map to trim   (main.rs:301-305)
MainPatternLines(content) ==
    TrimAll(SelectSeq(Lines(content), LAMBDA line : Len(Trim(line)) # 0))

Ok(patterns) == [ok |-> TRUE, patterns |-> patterns]
Err == [ok |-> FALSE, patterns |-> <<>>]

\* read_list_file with every read failure taken for a missing file
read_list_file_ErrorsAreEmpty(f) ==
    IF f.kind = "text" THEN Ok(PatternLines(f.content))
    ELSE Ok(<<>>)

\* lib.rs:25-41: fs::read_to_string(file_path) is Ok(content), Err of kind
\* NotFound, or another Err
read_list_file(f) ==
    IF f.kind = "text" THEN Ok(PatternLines(f.content))
    ELSE IF f.kind = "NotFound" THEN Ok(<<>>)
    ELSE Err

\* lib.rs:44-65
read_gitignore_file(f) ==
    IF f.kind = "text" THEN Ok(PatternLines(f.content))
    ELSE IF f.kind = "NotFound" THEN Ok(<<>>)
    ELSE Err

\* main.rs:298-312
main_read_list_file(f) ==
    IF f.kind = "text" THEN Ok(MainPatternLines(f.content))
    ELSE IF f.kind = "NotFound" THEN Ok(<<>>)
    ELSE Err

\* main.rs:314-338: the filter tests for '#' as the library's does
main_read_gitignore_file(f) ==
    IF f.kind = "text" THEN Ok(PatternLines(f.content))
    ELSE IF f.kind = "NotFound" THEN Ok(<<>>)
    ELSE Err

\* the characters of a pattern file
FileChars == {"a", "#", " ", "\n", "\r"}

\* the kinds of io::Error of a read that fails
ErrorKinds == {"NotFound", "PermissionDenied", "IsADirectory", "InvalidData"}

\* the pattern file: a text of at most MaxFileLen characters, or a path
\* the read fails on
InitLoad ==
    /\ file \in { [kind |-> "text", content |-> c] : c \in SeqsUpTo(FileChars, MaxFileLen) }
               \cup { [kind |-> k, content |-> <<>>] : k \in ErrorKinds }
    /\ loaded = NotLoaded
    /\ pc = "load"
    /\ NoCall

Returned(by, r) ==
    /\ loaded' = [returned |-> TRUE, by |-> by, ok |-> r.ok, patterns |-> r.patterns]
    /\ pc' = "loaded"
    /\ UNCHANGED <<file, call_vars>>

ReadListFile ==
    /\ pc = "load"
    /\ Returned("lib::read_list_file", read_list_file(file))

ReadGitignoreFile ==
    /\ pc = "load"
    /\ Returned("lib::read_gitignore_file", read_gitignore_file(file))

MainReadListFile ==
    /\ pc = "load"
    /\ Returned("main::read_list_file", main_read_list_file(file))

MainReadGitignoreFile ==
    /\ pc = "load"
    /\ Returned("main::read_gitignore_file", main_read_gitignore_file(file))

NextLoad ==
    \/ ReadListFile
    \/ ReadGitignoreFile
    \/ MainReadListFile
    \/ MainReadGitignoreFile

SpecLoad == InitLoad /\ [][NextLoad]_vars

(***************************************************************************)
(* The binary's pipeline: save_project_structure_and_files of              *)
(* main.rs:341-460, called by main with root_path "." (main.rs:192).  It   *)
(* walks with ignore::WalkBuilder and installs the patterns as overrides.  *)
(***************************************************************************)
\* the directory the binary is started in, which root_path "." names
MainCwd == Cwd \o << <<"u">> >>

\* PathBuf::from(output_file): out.txt
OutputPath == << <<"o","u","t",".","t","x","t">> >>

\* entry.path() of the file or directory at rel below the root: ./rel
EntryPath(rel) == << <<".">> >> \o rel

\* globset rejects the pattern: a character class that is not closed
GlobError(pattern) ==
    \E i \in 1..Len(pattern) :
        /\ pattern[i] = "["
        /\ ~\E j \in (i + 2)..Len(pattern) : pattern[j] = "]"

\* OverrideBuilder::add(line): the line as ignore's gitignore parser reads
\* it.  A leading ! negates; a trailing / makes the glob match directories
\* only; a glob without / matches the name of an entry at any depth.  (The
\* lines of the model hold no other /.)
OverrideGlob(line) ==
    LET negated == StartsWith(line, <<"!">>)
        rest == IF negated THEN Tail(line) ELSE line
        only_dir == EndsWith(rest, <<"/">>)
    IN  [negated |-> negated,
         only_dir |-> only_dir,
         glob |-> IF only_dir THEN SubSeq(rest, 1, Len(rest) - 1) ELSE rest]

\* the glob of the line matches the entry at rel
OverrideGlobMatches(line, rel, is_dir) ==
    LET g == OverrideGlob(line)
    IN  /\ ~(g.only_dir /\ ~is_dir)
        /\ GlobMatches(g.glob, rel[Len(rel)])

\* Override::matched(path, is_dir): no override, None; the last line whose
\* glob matches decides, Ignore for a negated line and Whitelist for a
\* plain one; a file that no line matches is ignored once there is a plain
\* line
OverrideMatched(lines, rel, is_dir) ==
    IF Len(lines) = 0 THEN "None"
    ELSE LET matching == { k \in 1..Len(lines) : OverrideGlobMatches(lines[k], rel, is_dir) }
             num_whitelists ==
                Cardinality({ k \in 1..Len(lines) : ~OverrideGlob(lines[k]).negated })
         IN  IF matching = {}
             THEN (IF num_whitelists > 0 /\ ~is_dir THEN "Ignore" ELSE "None")
             ELSE LET last == CHOOSE k \in matching : \A j \in matching : j <= k
                  IN  IF OverrideGlob(lines[last]).negated THEN "Ignore" ELSE "Whitelist"

\* the walker skips the entry: the filter_entry of main.rs:365-368, or an
\* override that ignores it
Skipped(lines, rel) ==
    \/ EntryPath(rel) = OutputPath
    \/ OverrideMatched(lines, rel, IsDir(MainCwd \o rel)) = "Ignore"

\* the walk below the directory at rel: depth first, each directory's
\* entries in an order the platform chooses, a skipped directory not
\* entered, and the Err of a directory that cannot be listed dropped by
\* filter_map(|entry| entry.ok()); the files, by is_file()  (main.rs:405-411)
RECURSIVE MainWalk(_, _), MainWalkEntries(_, _)
MainWalk(lines, rel) ==
    IF IsFile(MainCwd \o rel) THEN { <<rel>> }
    ELSE IF (MainCwd \o rel) \in UnreadableDirs THEN { <<>> }
    ELSE UNION { MainWalkEntries(lines, order) :
                    order \in EntryOrders({ rel \o <<c[Len(c)]>> :
                                                c \in Children(MainCwd \o rel) }) }

MainWalkEntries(lines, order) ==
    IF Len(order) = 0 THEN { <<>> }
    ELSE { first \o rest :
            first \in (IF Skipped(lines, order[1]) THEN { <<>> }
                       ELSE MainWalk(lines, order[1])),
            rest \in MainWalkEntries(lines, Tail(order)) }

\* the directories the walk enters and cannot list
RECURSIVE MainWalkErrors(_, _)
MainWalkErrors(lines, rel) ==
    IF IsFile(MainCwd \o rel) THEN {}
    ELSE IF (MainCwd \o rel) \in UnreadableDirs THEN { rel }
    ELSE UNION { MainWalkErrors(lines, rel \o <<c[Len(c)]>>) :
                    c \in { ch \in Children(MainCwd \o rel) :
                                ~Skipped(lines, rel \o <<ch[Len(ch)]>>) } }

\* path.strip_prefix(root_path).unwrap_or(path).to_string_lossy()
\*     .replace('\\', "/")   (main.rs:420-421)
MainPathStr(rel) == Replace(ToStringLossy(FALSE, rel), "\\", "/")

\* the closure of the parallel map for one entry   (main.rs:418-430)
ReadEntryResult(rel) ==
    [path_str |-> MainPathStr(rel), content |-> ContentOf(MainCwd \o rel)]

\* a read that has not finished
Pending == [done |-> FALSE, path_str |-> <<>>, content |-> <<>>]

\* CollectResults with the results in the order the reads finished
CollectResults_ByCompletion(read, finished) ==
    [k \in 1..Len(finished) |->
        [path_str |-> read[finished[k]].path_str, content |-> read[finished[k]].content]]

\* par_iter().map(..).collect(): the results in the order of entries,
\* whatever order the reads finished in   (main.rs:416-431)
CollectResults(read, finished) ==
    [i \in 1..Len(read) |-> [path_str |-> read[i].path_str, content |-> read[i].content]]

\* *.rs, e.md and [ (no glob)
MainBlacklistUniverse ==
    { <<"*", ".", "r", "s">>,
      <<"e", ".", "m", "d">>,
      <<"[">> }

\* *.rs, *.md and [ (no glob)
MainWhitelistUniverse ==
    { <<"*", ".", "r", "s">>,
      <<"*", ".", "m", "d">>,
      <<"[">> }

InitMain ==
    /\ blacklist_patterns \in SeqsUpTo(MainBlacklistUniverse, MaxPatterns)
    /\ whitelist_patterns \in SeqsUpTo(MainWhitelistUniverse, MaxPatterns)
    /\ pc = "blacklist"
    /\ paths_to_process = <<>>
    /\ output_file_to_exclude = None
    /\ next_root = 1
    /\ all_files = <<>>
    /\ filtered_files = <<>>
    /\ results = <<>>
    /\ artifact = EmptyArtifact
    /\ stats = EmptyStats
    /\ writer = <<>>
    /\ result = "none"
    /\ walk_errors = 0
    /\ overrides = <<>>
    /\ entries = <<>>
    /\ slots = <<>>
    /\ completion = <<>>
    /\ file = NoFile
    /\ loaded = NotLoaded

\* the variables the binary's pipeline never touches
lib_vars == <<paths_to_process, output_file_to_exclude, next_root, all_files,
              filtered_files, load_vars>>

\* main.rs:370-383: the blacklist patterns, each negated, become the
\* builder's overrides
AddBlacklistOverrides ==
    /\ pc = "blacklist"
    /\ \A k \in 1..Len(blacklist_patterns) : ~GlobError(blacklist_patterns[k])
    /\ overrides' = IF Len(blacklist_patterns) # 0
                    THEN [k \in 1..Len(blacklist_patterns) |-> <<"!">> \o blacklist_patterns[k]]
                    ELSE overrides
    /\ pc' = "whitelist"
    /\ UNCHANGED <<blacklist_patterns, whitelist_patterns, results, artifact, stats,
                   writer, result, walk_errors, entries, slots, completion, lib_vars>>

\* main.rs:385-399: !* and the whitelist patterns become the builder's
\* overrides; builder.overrides(..) sets the overrides, it does not add to
\* those set before
AddWhitelistOverrides ==
    /\ pc = "whitelist"
    /\ \A k \in 1..Len(whitelist_patterns) : ~GlobError(whitelist_patterns[k])
    /\ overrides' = IF Len(whitelist_patterns) # 0
                    THEN << <<"!", "*">> >> \o whitelist_patterns
                    ELSE overrides
    /\ pc' = "walk"
    /\ UNCHANGED <<blacklist_patterns, whitelist_patterns, results, artifact, stats,
                   writer, result, walk_errors, entries, slots, completion, lib_vars>>

\* main.rs:378, 394: override_builder.add(..)? returns the error of a
\* pattern that is no glob
OverrideError ==
    /\ \/ /\ pc = "blacklist"
          /\ \E k \in 1..Len(blacklist_patterns) : GlobError(blacklist_patterns[k])
       \/ /\ pc = "whitelist"
          /\ \E k \in 1..Len(whitelist_patterns) : GlobError(whitelist_patterns[k])
    /\ result' = "Err"
    /\ pc' = "done"
    /\ UNCHANGED <<blacklist_patterns, whitelist_patterns, results, artifact, stats,
                   writer, walk_errors, overrides, entries, slots, completion, lib_vars>>

\* main.rs:405-413: the walk, and file_count
CollectEntries ==
    /\ pc = "walk"
    /\ \E walked \in MainWalk(overrides, <<>>) :
        /\ entries' = walked
        /\ slots' = [i \in 1..Len(walked) |-> Pending]
        /\ stats' = [stats EXCEPT !.file_count = Len(walked)]
    /\ walk_errors' = Cardinality(MainWalkErrors(overrides, <<>>))
    /\ pc' = "read"
    /\ UNCHANGED <<blacklist_patterns, whitelist_patterns, results, artifact,
                   writer, result, overrides, completion, lib_vars>>

\* main.rs:416-430: one of the reads of the parallel map finishes; rayon
\* runs them in any order
ReadEntry ==
    /\ pc = "read"
    /\ \E i \in 1..Len(entries) :
        /\ ~slots[i].done
        /\ slots' = [slots EXCEPT ![i] =
                        [done |-> TRUE,
                         path_str |-> ReadEntryResult(entries[i]).path_str,
                         content |-> ReadEntryResult(entries[i]).content]]
        /\ completion' = Append(completion, i)
    /\ UNCHANGED <<blacklist_patterns, whitelist_patterns, pc, results, artifact, stats,
                   writer, result, walk_errors, overrides, entries, lib_vars>>

\* main.rs:431: collect() returns once every read has finished
Collect ==
    /\ pc = "read"
    /\ \A i \in 1..Len(entries) : slots[i].done
    /\ results' = CollectResults(slots, completion)
    /\ pc' = "main_sort"
    /\ UNCHANGED <<blacklist_patterns, whitelist_patterns, artifact, stats,
                   writer, result, walk_errors, overrides, entries, slots, completion,
                   lib_vars>>

\* main.rs:433-435
MainSort ==
    /\ pc = "main_sort"
    /\ results' = SortByPath(results)
    /\ pc' = "main_prepare"
    /\ UNCHANGED <<blacklist_patterns, whitelist_patterns, artifact, stats,
                   writer, result, walk_errors, overrides, entries, slots, completion,
                   lib_vars>>

\* main.rs:437-450
MainPrepare ==
    /\ pc = "main_prepare"
    /\ artifact' = [structure |-> ProjectStructure(results), blocks |-> results]
    /\ stats' = AccumulateStats(results, 1, stats)
    /\ pc' = "main_write"
    /\ UNCHANGED <<blacklist_patterns, whitelist_patterns, results,
                   writer, result, walk_errors, overrides, entries, slots, completion,
                   lib_vars>>

\* main.rs:452-459: the file is created and written, Ok(stats)
MainWrite ==
    /\ pc = "main_write"
    /\ writer' = Render(artifact)
    /\ result' = "Ok"
    /\ pc' = "done"
    /\ UNCHANGED <<blacklist_patterns, whitelist_patterns, results, artifact, stats,
                   walk_errors, overrides, entries, slots, completion, lib_vars>>

\* main.rs:453-457: File::create or one of the writes fails
MainWriteFails ==
    /\ pc = "main_write"
    /\ \E k \in 0..3 : writer' = Written(artifact, k)
    /\ result' = "Err"
    /\ pc' = "done"
    /\ UNCHANGED <<blacklist_patterns, whitelist_patterns, results, artifact, stats,
                   walk_errors, overrides, entries, slots, completion, lib_vars>>

NextMain ==
    \/ AddBlacklistOverrides
    \/ AddWhitelistOverrides
    \/ OverrideError
    \/ CollectEntries
    \/ ReadEntry
    \/ Collect
    \/ MainSort
    \/ MainPrepare
    \/ MainWrite
    \/ MainWriteFails

SpecMain == InitMain /\ [][NextMain]_vars

(***************************************************************************)
(* What the claims speak of.                                               *)
(***************************************************************************)
\* the artifact has been assembled
Assembled == pc \in {"write", "done"}

\* path is a line of the structure listing
Listed(path) == \E i \in 1..Len(artifact.structure) : artifact.structure[i] = path

\* path heads a content block
HasBlock(path) == \E i \in 1..Len(artifact.blocks) : artifact.blocks[i].path_str = path

\* the normalized paths of the candidate files of the run
CandidatePaths == { all_files[i].path_str : i \in 1..Len(all_files) }

\* the three match modes of an exclude pattern, as the specification words
\* them (section 4.2, step 1)
ExcludeModeMatches(pattern, path) ==
    \/ GlobMatches(pattern, path)
    \/ /\ EndsWith(pattern, <<"/">>)
       /\ LET clean_prefix == TrimEndMatches(pattern, "/")
          IN  path = clean_prefix \/ StartsWith(path, clean_prefix \o <<"/">>)
    \/ /\ ~ContainsChar(pattern, "*")
       /\ ~ContainsChar(pattern, ".")
       /\ \/ \E k \in 1..Len(Split(path, "/")) : Split(path, "/")[k] = pattern
          \/ StartsWith(path, pattern \o <<"/">>)
          \/ path = pattern

ExcludedBySomePattern(path) ==
    \E k \in 1..Len(blacklist_patterns) : ExcludeModeMatches(blacklist_patterns[k], path)

\* an include pattern matches: by glob, or, for a pattern that begins with
\* '*', by the pattern under any leading directory (section 4.2, step 2)
IncludeModeMatches(pattern, path) ==
    \/ GlobMatches(pattern, path)
    \/ /\ StartsWith(pattern, <<"*">>)
       /\ GlobMatches(<<"*", "*", "/">> \o pattern, path)

IncludedBySomePattern(path) ==
    \E k \in 1..Len(whitelist_patterns) : IncludeModeMatches(whitelist_patterns[k], path)

C2_PresentIffSelected ==
    (Assembled /\ Len(whitelist_patterns) # 0) =>
        \A i \in 1..Len(all_files) :
            LET path == all_files[i].path_str
            IN  (Listed(path) /\ HasBlock(path))
                    <=> (~ExcludedBySomePattern(path) /\ IncludedBySomePattern(path))

(***************************************************************************)
(* C3: with an empty include list, the set of emitted paths is the set of  *)
(* candidate paths less the excluded ones.                                 *)
(***************************************************************************)
C3_DefaultIncludeAll ==
    (Assembled /\ Len(whitelist_patterns) = 0) =>
        { artifact.structure[i] : i \in 1..Len(artifact.structure) }
            = { path \in CandidatePaths : ~ExcludedBySomePattern(path) }

(***************************************************************************)
(* C4: the paths of the structure listing and the paths that head the      *)
(* content blocks are one and the same sequence, in ascending              *)
(* lexicographic order.                                                    *)
(***************************************************************************)
C4_SameSortedSequence ==
    Assembled =>
        /\ artifact.structure
             = [i \in 1..Len(artifact.blocks) |-> artifact.blocks[i].path_str]
        /\ \A i \in 1..(Len(artifact.structure) - 1) :
             ~StrLess(artifact.structure[i + 1], artifact.structure[i])

\* a finished run that listed two files the walk had found in descending order
C4_Witness ==
    /\ pc = "done"
    /\ \E i, j \in 1..Len(all_files) :
        /\ i < j
        /\ StrLess(all_files[j].path_str, all_files[i].path_str)
        /\ Listed(all_files[i].path_str)
        /\ Listed(all_files[j].path_str)

(***************************************************************************)
(* C5: the bytes written do not depend on the order in which the walker    *)
(* hands out the files or on the order of the root list.  Every finished   *)
(* run has written what the run writes that takes the roots in any order   *)
(* and walks every directory in one fixed order.                           *)
(***************************************************************************)
\* one fixed order of the walk of p
FixedWalk(p, out) == CHOOSE walked \in WalkDir(p, out) : TRUE

\* all_files of the run that walks every directory in the fixed order
RECURSIVE FixedOrderFiles(_, _, _)
FixedOrderFiles(roots, i, out) ==
    IF i > Len(roots) THEN <<>>
    ELSE LET absolute_base_path == AbsoluteBasePath(roots[i])
             found ==
                IF IsFile(absolute_base_path) THEN <<FileRecord(absolute_base_path)>>
                ELSE IF IsDir(absolute_base_path)
                THEN [k \in 1..Len(FixedWalk(absolute_base_path, out)) |->
                        FileRecord(FixedWalk(absolute_base_path, out)[k])]
                ELSE <<>>
         IN  found \o FixedOrderFiles(roots, i + 1, out)

\* what that run writes
FixedOrderOutput(roots) ==
    IF IsBlacklistOnlyTest(roots) THEN Render(HandlerArtifact)
    ELSE LET res == SortByPath(ReadLoop(FilterLoop(
                        FixedOrderFiles(roots, 1, output_file_to_exclude),
                        blacklist_patterns, whitelist_patterns)))
         IN  Render([structure |-> ProjectStructure(res), blocks |-> res])

C5_OrderIndependent ==
    (pc = "done" /\ result = "Ok") =>
        \A order \in EntryOrders(1..Len(paths_to_process)) :
            writer = FixedOrderOutput(
                        [i \in 1..Len(paths_to_process) |-> paths_to_process[order[i]]])

(***************************************************************************)
(* C6: the statistics returned have estimated_tokens = char_count / 4      *)
(* (integer division).                                                     *)
(***************************************************************************)
C6_TokensAreQuarterOfChars ==
    (pc = "done" /\ result = "Ok") => stats.estimated_tokens = stats.char_count \div 4

(***************************************************************************)
(* C7: the file_count returned is the number of paths written to the       *)
(* structure listing and the number of content blocks written.             *)
(***************************************************************************)
C7_FileCountIsEmitted ==
    (pc = "done" /\ result = "Ok") =>
        /\ stats.file_count = Len(artifact.structure)
        /\ stats.file_count = Len(artifact.blocks)

(***************************************************************************)
(* C8: when output_file_to_exclude is given, the walk produces no record   *)
(* with that path, whether it lies under a directory root or is a file     *)
(* root itself, and the artifact never lists it.                           *)
(***************************************************************************)
C8_OutputNeverCandidate ==
    output_file_to_exclude.is_some =>
        /\ \A i \in 1..Len(all_files) :
             AbsolutePath(all_files[i].path) # output_file_to_exclude.path
        /\ Assembled => ~Listed(PathStr(output_file_to_exclude.path.comps))

(***************************************************************************)
(* C9: the outcome for a file depends only on its normalized path and the  *)
(* two pattern lists, and no literal directory or root name is treated     *)
(* specially.  Two candidates that no pattern of either list tells apart   *)
(* have the same outcome, and a path is listed only as the normalized path *)
(* of a candidate, never on the strength of a root's name.                 *)
(***************************************************************************)
SameMatches(p, q) ==
    /\ \A k \in 1..Len(blacklist_patterns) :
         ExcludeModeMatches(blacklist_patterns[k], p)
            <=> ExcludeModeMatches(blacklist_patterns[k], q)
    /\ \A k \in 1..Len(whitelist_patterns) :
         IncludeModeMatches(whitelist_patterns[k], p)
            <=> IncludeModeMatches(whitelist_patterns[k], q)

C9_NoSpecialNames ==
    Assembled =>
        /\ \A p, q \in CandidatePaths : SameMatches(p, q) => (Listed(p) <=> Listed(q))
        /\ \A i \in 1..Len(artifact.structure) : artifact.structure[i] \in CandidatePaths

(***************************************************************************)
(* C10: no two records of the candidate set, and no two lines of the       *)
(* structure listing, carry the same normalized path.                      *)
(***************************************************************************)
C10_UniqueNormalizedPath ==
    /\ \A i, j \in 1..Len(all_files) :
         all_files[i].path_str = all_files[j].path_str => i = j
    /\ \A i, j \in 1..Len(artifact.structure) :
         artifact.structure[i] = artifact.structure[j] => i = j

\* Pattern::new(pattern) is Ok
Compiles(pattern) == PatternNew(pattern).ok

\* the record is in filtered_files
Selected(rec) == \E j \in 1..Len(filtered_files) : filtered_files[j] = rec

(***************************************************************************)
(* C11: a pattern that does not compile as a glob matches nothing, in any  *)
(* match mode.  Once the filter loop has run, a candidate is selected      *)
(* exactly when no exclude pattern that compiles matches it and, for a     *)
(* non-empty include list, some include pattern that compiles matches it:  *)
(* the patterns that do not compile exclude nothing and include nothing.   *)
(***************************************************************************)
C11_InvalidPatternNeverMatches ==
    pc \notin {"start", "walk"} =>
        \A i \in 1..Len(all_files) :
            LET path == all_files[i].path_str
            IN  Selected(all_files[i])
                    <=> /\ ~\E k \in 1..Len(blacklist_patterns) :
                              /\ Compiles(blacklist_patterns[k])
                              /\ BlacklistPatternMatches(blacklist_patterns[k], path)
                        /\ \/ Len(whitelist_patterns) = 0
                           \/ \E k \in 1..Len(whitelist_patterns) :
                                /\ Compiles(whitelist_patterns[k])
                                /\ WhitelistPatternMatches(whitelist_patterns[k], path)

\* the key of file p relative to the directory root
RootRelative(root, p) ==
    Replace(ToStringLossy(FALSE, SubSeq(p, Len(root) + 1, Len(p))), "\\", "/")

(***************************************************************************)
(* C12: the normalized path of every candidate is relative to the root it  *)
(* was found under and is never absolute: a file R/a/b found under the     *)
(* directory root R has the key a/b.                                       *)
(***************************************************************************)
C12_RootRelativePath ==
    \A i \in 1..Len(all_files) :
        /\ ~StartsWith(all_files[i].path_str, <<"/">>)
        /\ \E r \in 1..Len(paths_to_process) :
             LET root == AbsoluteBasePath(paths_to_process[r])
             IN  \/ root = all_files[i].path
                 \/ /\ Len(root) < Len(all_files[i].path)
                    /\ SubSeq(all_files[i].path, 1, Len(root)) = root
                    /\ all_files[i].path_str = RootRelative(root, all_files[i].path)

(***************************************************************************)
(* C13: every emitted file counts as at least one line, so the line_count  *)
(* returned is at least the number of files emitted.                       *)
(***************************************************************************)
C13_LineCountAtLeastFiles ==
    (pc = "done" /\ result = "Ok") => stats.line_count >= Len(artifact.blocks)

(***************************************************************************)
(* C14: a run in which a directory could not be listed during the walk, or *)
(* in which the writer does not hold the whole artifact, returns an error. *)
(***************************************************************************)
C14_FatalErrorsAreReturned ==
    pc = "done" =>
        ((walk_errors > 0 \/ writer # Render(artifact)) => result = "Err")

RECURSIVE SumSeq(_)
SumSeq(ns) == IF Len(ns) = 0 THEN 0 ELSE ns[1] + SumSeq(Tail(ns))

\* the text of the file at p, for a file that can be read
TextOf(p) == (CHOOSE f \in FileSystem : f.path = p).content

\* the placeholder written for a file whose bytes are not UTF-8
Placeholder ==
    <<"E","r","r","o","r"," ","r","e","a","d","i","n","g"," ","f","i","l","e",":"," ",
      "s","t","r","e","a","m"," ","d","i","d"," ","n","o","t"," ",
      "c","o","n","t","a","i","n"," ","v","a","l","i","d"," ","U","T","F","-","8">>

\* a selected file, outside old_projects/, that cannot be read
SurvivingUnreadable ==
    \E i \in 1..Len(filtered_files) :
        /\ filtered_files[i].path \in UndecodableFiles
        /\ ~Contains(filtered_files[i].path_str, OldProjectsDir)

(***************************************************************************)
(* C19: a selected file that cannot be read is listed and has a block      *)
(* whose body is the error placeholder; every other selected file of the   *)
(* run has a block with its own text; and line_count, char_count and       *)
(* estimated_tokens measure the placeholder as they measure any content.   *)
(***************************************************************************)
C19_UnreadableFileIsPlaceholder ==
    (Assembled /\ SurvivingUnreadable) =>
        /\ \A i \in 1..Len(filtered_files) :
             LET rec == filtered_files[i]
             IN  ~Contains(rec.path_str, OldProjectsDir) =>
                    \E b \in 1..Len(artifact.blocks) :
                        /\ artifact.structure[b] = rec.path_str
                        /\ artifact.blocks[b].path_str = rec.path_str
                        /\ artifact.blocks[b].content =
                             IF rec.path \in UndecodableFiles THEN Placeholder
                             ELSE TextOf(rec.path)
        /\ stats.line_count =
             SumSeq([b \in 1..Len(artifact.blocks) |-> LinesCount(artifact.blocks[b].content)])
        /\ stats.char_count =
             SumSeq([b \in 1..Len(artifact.blocks) |-> Len(artifact.blocks[b].content)])
        /\ stats.estimated_tokens =
             SumSeq([b \in 1..Len(artifact.blocks) |-> Len(artifact.blocks[b].content) \div 4])

\* a run that returned Ok after it had selected a file that cannot be read
\* together with files that can
C19_Witness ==
    /\ pc = "done"
    /\ result = "Ok"
    /\ SurvivingUnreadable
    /\ Len(artifact.blocks) >= 2
    /\ stats.char_count >= Len(Placeholder)

\* the lines of the file as the specification words them: the content cut
\* at every "\n"
FileLines(content) == Split(content, "\n")

\* str without its leading and trailing whitespace
Stripped(str) ==
    LET inner == { i \in 1..Len(str) : str[i] \notin WhiteSpace }
    IN  IF inner = {} THEN <<>>
        ELSE SubSeq(str, CHOOSE i \in inner : \A j \in inner : i <= j,
                         CHOOSE i \in inner : \A j \in inner : i >= j)

\* the lines that are not empty after trimming and do not start with '#'
\* after trimming, trimmed, in the order of the file
ExpectedPatterns(content) ==
    LET stripped == [i \in 1..Len(FileLines(content)) |-> Stripped(FileLines(content)[i])]
    IN  SelectSeq(stripped, LAMBDA line : Len(line) # 0 /\ line[1] # "#")

ByLibrary == loaded.by \in {"lib::read_list_file", "lib::read_gitignore_file"}

(***************************************************************************)
(* C16: for a file that can be read, the library's loaders return exactly  *)
(* the lines that are not empty after trimming and do not start with '#'   *)
(* after trimming, each trimmed, in the order of the file; no pattern      *)
(* returned is empty, starts with '#' or has whitespace at either end.     *)
(***************************************************************************)
C16_LoaderReturnsPatternLines ==
    (loaded.returned /\ ByLibrary /\ file.kind = "text") =>
        /\ loaded.ok
        /\ loaded.patterns = ExpectedPatterns(file.content)
        /\ \A i \in 1..Len(loaded.patterns) :
             LET pattern == loaded.patterns[i]
             IN  /\ Len(pattern) # 0
                 /\ pattern[1] # "#"
                 /\ pattern[1] \notin WhiteSpace
                 /\ pattern[Len(pattern)] \notin WhiteSpace

\* a library loader has returned one pattern from a file that also holds a
\* '#' and a space
C16_Witness ==
    /\ loaded.returned
    /\ ByLibrary
    /\ file.kind = "text"
    /\ Len(loaded.patterns) = 1
    /\ \E i \in 1..Len(file.content) : file.content[i] = "#"
    /\ \E i \in 1..Len(file.content) : file.content[i] = " "

(***************************************************************************)
(* C17: the binary's read_list_file ignores comment lines: no pattern it   *)
(* returns begins with '#'.                                                *)
(***************************************************************************)
C17_MainLoaderDropsComments ==
    (loaded.returned /\ loaded.by = "main::read_list_file") =>
        \A i \in 1..Len(loaded.patterns) : loaded.patterns[i][1] # "#"

(***************************************************************************)
(* C18: a loader given a file that does not exist returns Ok with an empty *)
(* list; given a file whose read fails in any other way it returns an      *)
(* error and no list.                                                      *)
(***************************************************************************)
C18_MissingFileIsEmptyList ==
    (loaded.returned /\ loaded.by = "lib::read_list_file") =>
        /\ file.kind = "NotFound" => (loaded.ok /\ loaded.patterns = <<>>)
        /\ file.kind \in ErrorKinds \ {"NotFound"} => (~loaded.ok /\ loaded.patterns = <<>>)

\* read_list_file has returned from a read that failed with a kind other
\* than NotFound
C18_Witness ==
    /\ loaded.returned
    /\ loaded.by = "lib::read_list_file"
    /\ file.kind = "PermissionDenied"
    /\ ~loaded.ok

\* the overrides made of the blacklist alone ignore the entry at rel or a
\* directory above it: a blacklist pattern matches the file
BlacklistMatches(rel) ==
    \E n \in 1..Len(rel) :
        OverrideMatched([k \in 1..Len(blacklist_patterns) |-> <<"!">> \o blacklist_patterns[k]],
                        SubSeq(rel, 1, n),
                        IsDir(MainCwd \o SubSeq(rel, 1, n))) = "Ignore"

(***************************************************************************)
(* C15: in the binary's pipeline, with a blacklist and a whitelist that    *)
(* are both non-empty, no file that a blacklist pattern matches is listed  *)
(* in the artifact, whether or not a whitelist pattern matches it.         *)
(***************************************************************************)
C15_MainExclusionIsFinal ==
    (pc \in {"main_write", "done"}
        /\ Len(blacklist_patterns) # 0 /\ Len(whitelist_patterns) # 0) =>
        \A i \in 1..Len(entries) :
            BlacklistMatches(entries[i]) => ~Listed(MainPathStr(entries[i]))

\* what the pipeline writes when the reads are made one after the other in
\* the order of entries
SequentialOutput ==
    LET read == [i \in 1..Len(entries) |-> ReadEntryResult(entries[i])]
        sorted_results == SortByPath(read)
    IN  Render([structure |-> ProjectStructure(sorted_results), blocks |-> sorted_results])

(***************************************************************************)
(* C20: in the binary's parallel read stage a read that finishes fills the *)
(* slot of its own entry and changes nothing else of the program's state;  *)
(* the sort and the write start only when every read has finished, on the  *)
(* results in the order of entries; and the artifact written is the one    *)
(* the reads made one after the other give, whatever order they finished   *)
(* in.                                                                     *)
(***************************************************************************)
C20_ReadsAreIndependent ==
    /\ [](pc \in {"main_sort", "main_prepare", "main_write"}
            => \A i \in 1..Len(entries) : slots[i].done)
    /\ [](pc = "main_sort"
            => results = [i \in 1..Len(entries) |-> ReadEntryResult(entries[i])])
    /\ []((pc = "done" /\ result = "Ok") => writer = SequentialOutput)
    /\ [][(pc = "read" /\ pc' = "read") =>
            /\ \E i \in 1..Len(entries) :
                 /\ ~slots[i].done
                 /\ slots'[i].done
                 /\ slots'[i].path_str = MainPathStr(entries[i])
                 /\ \A j \in 1..Len(entries) : j # i => slots'[j] = slots[j]
            /\ UNCHANGED <<entries, results, artifact, stats, writer, result, overrides>>]_vars

\* the pipeline has written the artifact of two or more files whose reads
\* finished in an order that is not the order of entries
C20_Witness ==
    /\ pc = "done"
    /\ result = "Ok"
    /\ Len(entries) >= 2
    /\ writer = SequentialOutput
    /\ \E k \in 1..(Len(completion) - 1) : completion[k] > completion[k + 1]

\* a literal name of one path segment: not empty, and none of * ? [ ] . /
PlainName(pattern) ==
    /\ Len(pattern) > 0
    /\ \A i \in 1..Len(pattern) : pattern[i] \notin {"*", "?", "[", "]", ".", "/"}

\* name stands in path from position first on, between two '/' or an end
SegmentAt(path, name, first) ==
    /\ first + Len(name) - 1 <= Len(path)
    /\ SubSeq(path, first, first + Len(name) - 1) = name
    /\ (first = 1 \/ path[first - 1] = "/")
    /\ (first + Len(name) - 1 = Len(path) \/ path[first + Len(name)] = "/")

\* a '/'-delimited segment of path equals name
HasSegment(path, name) == \E first \in 1..Len(path) : SegmentAt(path, name, first)

PlainNamesOnly ==
    /\ Len(blacklist_patterns) > 0
    /\ \A k \in 1..Len(blacklist_patterns) : PlainName(blacklist_patterns[k])
    /\ Len(whitelist_patterns) = 0

(***************************************************************************)
(* C21: an exclude pattern that is a plain literal name excludes exactly   *)
(* the files whose normalized path has a segment equal to the name, at any *)
(* depth.  In a run whose exclude patterns are plain names and whose       *)
(* include list is empty, the filter loop drops a candidate exactly when a *)
(* segment of its path equals one of the names; a name that is only part   *)
(* of a segment excludes nothing.                                          *)
(***************************************************************************)
C21_PlainNameExcludesSegment ==
    (pc \notin {"start", "walk"} /\ PlainNamesOnly) =>
        \A i \in 1..Len(all_files) :
            Selected(all_files[i])
                <=> ~\E k \in 1..Len(blacklist_patterns) :
                        HasSegment(all_files[i].path_str, blacklist_patterns[k])

\* a finished run with plain names only that dropped a file for a segment
\* below the first and kept a file in which the name is part of a segment
C21_Witness ==
    /\ pc = "done"
    /\ PlainNamesOnly
    /\ \E i \in 1..Len(all_files) :
        /\ ~Selected(all_files[i])
        /\ \E first \in 2..Len(all_files[i].path_str) :
             SegmentAt(all_files[i].path_str, blacklist_patterns[1], first)
    /\ \E i \in 1..Len(all_files) :
        /\ Selected(all_files[i])
        /\ Contains(all_files[i].path_str, blacklist_patterns[1])

\* the pattern matches the whole path or a suffix of it that starts at a
\* directory boundary
MatchesAtBoundary(pattern, path) ==
    \E first \in 1..Len(path) :
        /\ (first = 1 \/ path[first - 1] = "/")
        /\ GlobMatches(pattern, SubSeq(path, first, Len(path)))

StarPatternsOnly ==
    /\ Len(whitelist_patterns) > 0
    /\ \A k \in 1..Len(whitelist_patterns) : StartsWith(whitelist_patterns[k], <<"*">>)

(***************************************************************************)
(* C22: an include pattern that begins with '*' selects matching files at  *)
(* the root and at any depth.  In a run whose include patterns all begin   *)
(* with '*', the filter loop selects a candidate exactly when no exclude   *)
(* pattern matches it and some include pattern matches its whole path or   *)
(* a suffix of it that starts at a directory boundary.                     *)
(***************************************************************************)
C22_StarPatternAtAnyDepth ==
    (pc \notin {"start", "walk"} /\ StarPatternsOnly) =>
        \A i \in 1..Len(all_files) :
            Selected(all_files[i])
                <=> /\ ~ExcludedBySomePattern(all_files[i].path_str)
                    /\ \E k \in 1..Len(whitelist_patterns) :
                         MatchesAtBoundary(whitelist_patterns[k], all_files[i].path_str)

\* a finished run whose include patterns begin with '*' that selected a
\* file below a directory and left out a file that no pattern excludes
C22_Witness ==
    /\ pc = "done"
    /\ StarPatternsOnly
    /\ \E i \in 1..Len(all_files) :
        /\ Selected(all_files[i])
        /\ ContainsChar(all_files[i].path_str, "/")
    /\ \E i \in 1..Len(all_files) :
        /\ ~Selected(all_files[i])
        /\ ~ExcludedBySomePattern(all_files[i].path_str)

\* the paths the artifact lists
EmittedPaths == { artifact.structure[i] : i \in 1..Len(artifact.structure) }

\* the paths listed by the run over the same roots and the same candidate
\* files with the pattern lists bl and wl
RunEmits(bl, wl) ==
    IF IsBlacklistOnlyTest(paths_to_process)
    THEN { HandlerArtifact.structure[i] : i \in 1..Len(HandlerArtifact.structure) }
    ELSE LET read == ReadLoop(FilterLoop(all_files, bl, wl))
         IN  { read[i].path_str : i \in 1..Len(read) }

\* seq with x put in after its first k elements
InsertAt(seq, k, x) == SubSeq(seq, 1, k) \o <<x>> \o SubSeq(seq, k + 1, Len(seq))

(***************************************************************************)
(* C23: for fixed candidate files the set of emitted paths only shrinks    *)
(* when a pattern is added to the exclude list and, for a non-empty        *)
(* include list, only grows when a pattern is added to the include list.   *)
(* Every finished run emits what its lists give; the run with one more     *)
(* exclude pattern, at any place of the list, emits no other path; and the *)
(* run with one more include pattern emits every path of this run.         *)
(***************************************************************************)
C23_EmittedSetIsMonotone ==
    (pc = "done" /\ result = "Ok") =>
        /\ EmittedPaths = RunEmits(blacklist_patterns, whitelist_patterns)
        /\ \A e \in BlacklistUniverse : \A k \in 0..Len(blacklist_patterns) :
             RunEmits(InsertAt(blacklist_patterns, k, e), whitelist_patterns)
                \subseteq EmittedPaths
        /\ Len(whitelist_patterns) # 0 =>
             \A w \in WhitelistUniverse : \A k \in 0..Len(whitelist_patterns) :
                EmittedPaths
                    \subseteq RunEmits(blacklist_patterns, InsertAt(whitelist_patterns, k, w))

\* a finished run with an include list from which one more exclude pattern
\* takes a path away and to which one more include pattern adds a path
C23_Witness ==
    /\ pc = "done"
    /\ result = "Ok"
    /\ Len(whitelist_patterns) # 0
    /\ \E e \in BlacklistUniverse :
         RunEmits(Append(blacklist_patterns, e), whitelist_patterns) # EmittedPaths
    /\ \E w \in WhitelistUniverse :
         RunEmits(blacklist_patterns, Append(whitelist_patterns, w)) # EmittedPaths

\* floor(character count / 4) of every emitted file, in the order of the blocks
QuartersOfBlocks ==
    [b \in 1..Len(artifact.blocks) |-> CharsCount(artifact.blocks[b].content) \div 4]

(***************************************************************************)
(* C24: in every run that returns its statistics, estimated_tokens is the  *)
(* sum over the emitted files of floor(character count of the file / 4);   *)
(* it is at most floor(char_count / 4), and equal to it when at most one   *)
(* file is emitted.                                                        *)
(***************************************************************************)
C24_TokensAreSumOfQuarters ==
    (pc = "done" /\ result = "Ok") =>
        /\ stats.estimated_tokens = SumSeq(QuartersOfBlocks)
        /\ stats.estimated_tokens <= stats.char_count \div 4
        /\ Len(artifact.blocks) <= 1 => stats.estimated_tokens = stats.char_count \div 4

\* the selected files whose normalized path contains old_projects/
OldProjectsSelected ==
    { i \in 1..Len(filtered_files) : Contains(filtered_files[i].path_str, OldProjectsDir) }

(***************************************************************************)
(* C25: in every run that returns its statistics, the number of content    *)
(* blocks is at most file_count, and file_count exceeds it by exactly the  *)
(* number of selected files whose normalized path contains old_projects/;  *)
(* such a file is neither listed nor given a block, and with such a file   *)
(* selected line_count and char_count are those of the blocks alone.       *)
(***************************************************************************)
C25_BlocksAndFileCount ==
    (pc = "done" /\ result = "Ok") =>
        /\ Len(artifact.blocks) <= stats.file_count
        /\ stats.file_count - Len(artifact.blocks) = Cardinality(OldProjectsSelected)
        /\ \A i \in OldProjectsSelected :
             /\ ~Listed(filtered_files[i].path_str)
             /\ ~HasBlock(filtered_files[i].path_str)
        /\ OldProjectsSelected # {} =>
             /\ stats.line_count =
                  SumSeq([b \in 1..Len(artifact.blocks) |->
                            LinesCount(artifact.blocks[b].content)])
             /\ stats.char_count =
                  SumSeq([b \in 1..Len(artifact.blocks) |->
                            CharsCount(artifact.blocks[b].content)])

\* a finished run that selected a file of old_projects/ with text in it
\* together with a file that it emitted
C25_Witness ==
    /\ pc = "done"
    /\ result = "Ok"
    /\ \E i \in OldProjectsSelected : Len(TextOf(filtered_files[i].path)) > 0
    /\ Len(artifact.blocks) >= 1
    /\ stats.file_count > Len(artifact.blocks)
====
